---- MODULE Spec2Model ----
(***************************************************************************)
(* Model of dray::Clip (src/unnamed/part_000): the four distance-field     *)
(* evaluators, the shape configuration held by Clip::InternalsType, and    *)
(* the per-domain, per-pass pipeline of Clip::execute.                     *)
(*                                                                         *)
(* Floats are modelled by integers (rounding is not modelled); the inputs  *)
(* are chosen so that every square root and every division the code takes  *)
(* is exact.  Arrays are 0-based as in the code.  A mesh is the sequence   *)
(* of its control points, a field the sequence of its per-point scalars.   *)
(***************************************************************************)
EXTENDS Integers, Sequences, FiniteSets, TLC

VARIABLES
    \* Clip::InternalsType
    clip_mode, boxbounds, sphere_center, sphere_radius, plane_origin, plane_normal,
    \* Clip
    m_invert, m_do_multi_plane,
    \* the caller's collection and the element-clip collaborator's boundary rule
    collection, keepEqual,
    \* locals of Clip::execute
    pc, i, dom, input, output, pass, npasses, clip_value, clipper, res,
    \* history: what the last make_distances call selected, the clipper calls
    \* made for the current domain, the input index of each domain of res,
    \* whether the collaborator handed the scratch field on in a pass of the
    \* current domain, where the 1..3 plane-count check last ran, whether it
    \* raised, and the number of Set*Clip calls made
    lastEval, nclips, resSrc, propagated, checkSite, error, nset,
    \* the number of Set*Clip calls the caller makes at most, and the most
    \* recent Set*Clip call: its mode, its arguments, the members it wrote
    \* and the members only an earlier call wrote
    setLimit, cfgLog,
    \* an evaluator constructed and applied on its own: its kind, constructor
    \* arguments, the mesh it is applied to and, once applied, its output
    evalRun

vars == << clip_mode, boxbounds, sphere_center, sphere_radius, plane_origin,
           plane_normal, m_invert, m_do_multi_plane, collection, keepEqual,
           pc, i, dom, input, output, pass, npasses, clip_value, clipper, res,
           lastEval, nclips, resSrc, propagated, checkSite, error, nset,
           setLimit, cfgLog, evalRun >>

internals == << clip_mode, boxbounds, sphere_center, sphere_radius, plane_origin,
                plane_normal >>

locals == << i, dom, input, output, pass, npasses, clip_value, clipper, res,
             lastEval, nclips, resSrc, propagated, checkSite, error >>

----------------------------------------------------------------------------
(* Bounds and input sets *)

MaxDomains == 2
MaxSetCalls == 1
\* Set*Clip calls in a row when the configuration itself is examined
MaxCfgCalls == 2
\* largest box coordinate when an evaluator is applied on its own
MaxExtent == 2

Vec3(x, y, z) == [k \in 0..2 |-> IF k = 0 THEN x ELSE IF k = 1 THEN y ELSE z]

pA == Vec3(0, 4, 0)
pB == Vec3(2, 0, 0)

Meshes == { <<pB>>, <<pA, pB>> }

\* the clip shapes a caller may configure
BoxChoices ==
    { [k \in 0..2 |-> IF k = 0 THEN [min |-> 0, max |-> 2]
                      ELSE IF k = 1 THEN [min |-> 0, max |-> 1]
                      ELSE [min |-> -1, max |-> 1]] }
SphereChoices == { [center |-> Vec3(0, 0, 0), radius |-> 2],
                   [center |-> Vec3(0, 0, 0), radius |-> 3] }
PlaneChoices == { [origin |-> Vec3(1, 0, 0), normal |-> Vec3(2, 0, 0)],
                  [origin |-> Vec3(0, 1, 0), normal |-> Vec3(0, 1, 0)] }

----------------------------------------------------------------------------
(* Clip modes *)

ModeBox == 0
ModeSphere == 1
ModePlane == 2
Mode2Plane == 3
Mode3Plane == 4

field_name == "__dray_clip_field__"

----------------------------------------------------------------------------
(* Arithmetic helpers *)

Min(a, b) == IF a < b THEN a ELSE b
Max(a, b) == IF a > b THEN a ELSE b

\* sqrt, exact on the perfect squares the inputs produce
Sqrt(n) == CHOOSE k \in 0..n : k * k = n

normalize(vec) ==
    LET mag == Sqrt(vec[0]*vec[0] + vec[1]*vec[1] + vec[2]*vec[2])
    IN  IF mag > 0 THEN [k \in 0..2 |-> vec[k] \div mag] ELSE vec

----------------------------------------------------------------------------
(* Distance-field evaluators: the scalar written for control point id *)

SphereDistance(center, mesh) ==
    [id \in 1..Len(mesh) |->
        LET dx == center[0] - mesh[id][0]
            dy == center[1] - mesh[id][1]
            dz == center[2] - mesh[id][2]
        IN  Sqrt(dx*dx + dy*dy + dz*dz)]

PlaneTerm(p, origin, normal) ==
    (p[0] - origin[0]) * normal[0] + (p[1] - origin[1]) * normal[1]
        + (p[2] - origin[2]) * normal[2]

SinglePlaneDistance(origin, normal, mesh) ==
    LET m_normal == normalize(normal)
    IN  [id \in 1..Len(mesh) |-> PlaneTerm(mesh[id], origin, m_normal)]

\* mutant: the running minimum is overwritten by the last plane's distance
PlaneLast(p, pt, origin, normal) == PlaneTerm(pt, origin[p], normal[p])

RECURSIVE PlaneMin(_, _, _, _)
PlaneMin(p, pt, origin, normal) ==
    IF p = 0 THEN PlaneTerm(pt, origin[0], normal[0])
    ELSE Min(PlaneMin(p - 1, pt, origin, normal), PlaneTerm(pt, origin[p], normal[p]))

MultiPlaneRangeError(nplanes) == nplanes > 3 \/ nplanes < 1

MultiPlaneDistance(origin, normal, nplanes, mesh) ==
    LET m_normal == [p \in 0..2 |-> normalize(normal[p])]
    IN  [id \in 1..Len(mesh) |-> PlaneMin(nplanes - 1, mesh[id], origin, m_normal)]

\* mutant: the two z faces are left out of the maximum
BoxDistanceNoZ(bounds, mesh) ==
    [id \in 1..Len(mesh) |->
        LET p == mesh[id]
            lo == Vec3(bounds[0].min, bounds[1].min, bounds[2].min)
            xmin == PlaneTerm(p, lo, Vec3(-1, 0, 0))
            xmax == PlaneTerm(p, Vec3(bounds[0].max, bounds[1].min, bounds[2].min),
                              Vec3(1, 0, 0))
            ymin == PlaneTerm(p, lo, Vec3(0, -1, 0))
            ymax == PlaneTerm(p, Vec3(bounds[0].min, bounds[1].max, bounds[2].min),
                              Vec3(0, 1, 0))
        IN  Max(Max(Max(xmin, xmax), ymin), ymax)]

BoxDistance(bounds, mesh) ==
    [id \in 1..Len(mesh) |->
        LET p == mesh[id]
            lo == Vec3(bounds[0].min, bounds[1].min, bounds[2].min)
            xmin == PlaneTerm(p, lo, Vec3(-1, 0, 0))
            xmax == PlaneTerm(p, Vec3(bounds[0].max, bounds[1].min, bounds[2].min),
                              Vec3(1, 0, 0))
            ymin == PlaneTerm(p, lo, Vec3(0, -1, 0))
            ymax == PlaneTerm(p, Vec3(bounds[0].min, bounds[1].max, bounds[2].min),
                              Vec3(0, 1, 0))
            zmin == PlaneTerm(p, lo, Vec3(0, 0, -1))
            zmax == PlaneTerm(p, Vec3(bounds[0].min, bounds[1].min, bounds[2].max),
                              Vec3(0, 0, 1))
        IN  Max(Max(Max(Max(Max(xmin, xmax), ymin), ymax), zmin), zmax)]

----------------------------------------------------------------------------
(* DataSet and Collection (dray containers): a DataSet is a value holding  *)
(* a mesh and a table of named fields; owner names the caller's domain     *)
(* whose storage the value shares (0: a local object of execute).          *)

EmptyDataSet == [owner |-> 0, has_mesh |-> FALSE, mesh |-> << >>, fields |-> << >>]

CallerFields(mesh) == [n \in {"rho"} |-> [id \in 1..Len(mesh) |-> mesh[id][0]]]

CallerDomains ==
    { [owner |-> 0, has_mesh |-> FALSE, mesh |-> << >>, fields |-> << >>] }
    \cup { [owner |-> 0, has_mesh |-> TRUE, mesh |-> m, fields |-> CallerFields(m)] :
           m \in Meshes }

\* every collection of at most MaxDomains domains, domain k owning storage k
Collections ==
    UNION { { [k \in 1..n |-> [c[k] EXCEPT !.owner = k]] : c \in [1..n -> CallerDomains] } :
            n \in 0..MaxDomains }

local_size(c) == Len(c)

\* Collection::domain(i), 0-based
domain(c, idx) == c[idx + 1]

\* copy construction: the copy has a field table and mesh list of its own
DataSetCopy(ds) == [ds EXCEPT !.owner = 0]

\* copy assignment into an existing object, which keeps its own storage
DataSetAssign(target, src) == [src EXCEPT !.owner = target.owner]

has_field(ds, name) == name \in DOMAIN ds.fields

add_field(ds, name, values) ==
    [ds EXCEPT !.fields = [n \in (DOMAIN ds.fields) \cup {name} |->
                              IF n = name THEN values ELSE ds.fields[n]]]

remove_field(ds, name) ==
    [ds EXCEPT !.fields = [n \in (DOMAIN ds.fields) \ {name} |-> ds.fields[n]]]

\* a write to a DataSet is seen by every caller domain sharing its storage
WriteThrough(c, ds) ==
    [k \in DOMAIN c |-> IF c[k].owner = ds.owner THEN ds ELSE c[k]]

----------------------------------------------------------------------------
(* ClipField, the element-clip collaborator, as a per-point threshold      *)
(* filter: it keeps values smaller than the clip value, larger ones when   *)
(* its invert flag is set; keepEq is what it does with a value equal to    *)
(* the clip value.  The scalar of control point id is read at index id of  *)
(* the named field.                                                        *)

Keeps(v, cv, invert, keepEq) ==
    IF v = cv THEN keepEq ELSE IF invert THEN v > cv ELSE v < cv

KeptIds(vals, n, cv, invert, keepEq) ==
    SelectSeq([k \in 1..n |-> k], LAMBDA k : Keeps(vals[k], cv, invert, keepEq))

Gather(seq, ids) == [j \in 1..Len(ids) |-> seq[ids[j]]]

ClipFieldExecute(c, in, keepEq, propagate) ==
    LET ids == KeptIds(in.fields[c.field], Len(in.mesh), c.clip_value, c.invert, keepEq)
        names == IF c.exclude /\ ~propagate THEN (DOMAIN in.fields) \ {c.field}
                 ELSE DOMAIN in.fields
    IN  [owner |-> 0, has_mesh |-> TRUE, mesh |-> Gather(in.mesh, ids),
         fields |-> [n \in names |-> Gather(in.fields[n], ids)]]

----------------------------------------------------------------------------
(* Clip::InternalsType *)

\* the shape members, by name and plane index
PlaneMembers(ps) == { <<"plane_origin", p>> : p \in ps } \cup { <<"plane_normal", p>> : p \in ps }

\* the members a Set*Clip call of the given mode assigns
MembersOf(mode) ==
    IF mode = ModeBox THEN { <<"boxbounds", 0>> }
    ELSE IF mode = ModeSphere THEN { <<"sphere_center", 0>>, <<"sphere_radius", 0>> }
    ELSE PlaneMembers(0..(mode - ModePlane))

\* mutant: three planes clipped in two passes
num_passes_two(multipass) ==
    IF (clip_mode = Mode2Plane \/ clip_mode = Mode3Plane) /\ multipass THEN 2 ELSE 1

num_passes(multipass) ==
    IF clip_mode = Mode2Plane /\ multipass THEN 2
    ELSE IF clip_mode = Mode3Plane /\ multipass THEN 3
    ELSE 1

make_box_distances(d) ==
    [values |-> BoxDistance(boxbounds, d.mesh), clip_value |-> 0,
     evaluator |-> "Box", plane_index |-> 0, nplanes |-> 0, error |-> FALSE,
     checked |-> FALSE, reads |-> { <<"boxbounds", 0>> }]

\* mutant: the sphere's clip value left at 0
make_sphere_distances_zero(d) ==
    [values |-> SphereDistance(sphere_center, d.mesh), clip_value |-> 0,
     evaluator |-> "Sphere", plane_index |-> 0, nplanes |-> 0, error |-> FALSE,
     checked |-> FALSE, reads |-> { <<"sphere_center", 0>>, <<"sphere_radius", 0>> }]

make_sphere_distances(d) ==
    [values |-> SphereDistance(sphere_center, d.mesh), clip_value |-> sphere_radius,
     evaluator |-> "Sphere", plane_index |-> 0, nplanes |-> 0, error |-> FALSE,
     checked |-> FALSE, reads |-> { <<"sphere_center", 0>>, <<"sphere_radius", 0>> }]

make_plane_distances(d, plane_index) ==
    [values |-> SinglePlaneDistance(plane_origin[plane_index],
                                    plane_normal[plane_index], d.mesh),
     clip_value |-> 0, evaluator |-> "SinglePlane", plane_index |-> plane_index,
     nplanes |-> 1, error |-> FALSE, checked |-> FALSE,
     reads |-> PlaneMembers({plane_index})]

\* mutant: the mode itself handed over as the plane count
MultiPlaneCountMode == clip_mode

\* the plane count handed to the MultiPlaneDistance constructor
MultiPlaneCount == clip_mode - 1

\* the constructor copies all three origins and normals and normalizes all
\* three normals; it raises on a count outside 1..3, before any dispatch
make_multi_plane_distances(d) ==
    LET nplanes == MultiPlaneCount
        bad == MultiPlaneRangeError(nplanes)
    IN  [values |-> IF bad THEN << >>
                    ELSE MultiPlaneDistance(plane_origin, plane_normal, nplanes, d.mesh),
         clip_value |-> 0, evaluator |-> "MultiPlane", plane_index |-> 0,
         nplanes |-> nplanes, error |-> bad, checked |-> TRUE,
         reads |-> PlaneMembers(0..2)]

\* mutant: every pass of a multi-pass clip uses plane 0
make_distances_plane0(d, multipass, p) ==
    IF clip_mode = ModeBox THEN make_box_distances(d)
    ELSE IF clip_mode = ModeSphere THEN make_sphere_distances(d)
    ELSE IF clip_mode = ModePlane THEN make_plane_distances(d, 0)
    ELSE IF multipass THEN make_plane_distances(d, 0)
    ELSE make_multi_plane_distances(d)

make_distances(d, multipass, p) ==
    IF clip_mode = ModeBox THEN make_box_distances(d)
    ELSE IF clip_mode = ModeSphere THEN make_sphere_distances(d)
    ELSE IF clip_mode = ModePlane THEN make_plane_distances(d, 0)
    ELSE IF multipass THEN make_plane_distances(d, p)
    ELSE make_multi_plane_distances(d)

----------------------------------------------------------------------------
(* Clip::execute, pieces *)

\* DataSet dom = collection.domain(i)
LocalDom(c, idx) == DataSetCopy(domain(c, idx))

\* mutant: the null-mesh test dropped
HasMeshAlways(d) == TRUE

\* dom.mesh() != nullptr
HasMesh(d) == d.has_mesh

\* mutant: input bound to the caller's domain instead of copied
LocalInputAliased(c, idx) == domain(c, idx)

\* DataSet input = dom, dom being the copy of collection.domain(i)
LocalInput(c, idx) == DataSetCopy(LocalDom(c, idx))

\* the domain whose mesh the distance field of a pass is computed from
DistanceSource == dom

\* mutant: the sphere special case dropped
ClipperInvertPlain == m_invert

\* the invert flag handed to the clipper
ClipperInvert == IF clip_mode = ModeSphere THEN ~m_invert ELSE m_invert

\* mutant: the field is never removed
StripFieldNever(ds) == ds

\* if(ds.has_field(field_name)) ds.remove_field(field_name)
StripField(ds) == IF has_field(ds, field_name) THEN remove_field(ds, field_name) ELSE ds

----------------------------------------------------------------------------
(* Initial state: a freshly constructed Clip and the caller's collection *)

EmptyRange == [min |-> 1000, max |-> -1000]

NoClipper == [clip_value |-> 0, field |-> "", exclude |-> FALSE, invert |-> FALSE]

NoEval == [evaluator |-> "none", plane_index |-> 0, nplanes |-> 0, source |-> << >>,
           values |-> << >>, reads |-> {}]

\* placeholders for the arguments a Set*Clip call does not take
NoVec == Vec3(0, 0, 0)
NoPlanes == [p \in 0..2 |-> NoVec]
NoBounds == [k \in 0..2 |-> [min |-> 0, max |-> 0]]

\* no evaluator is being applied on its own
NoEvalRun ==
    [kind |-> "none", origin |-> NoPlanes, normal |-> NoPlanes, nplanes |-> 0,
     bounds |-> NoBounds, mesh |-> << >>, done |-> FALSE, out |-> << >>]

\* no Set*Clip call yet: the defaults of the members, a single plane
NoCall ==
    [mode |-> ModePlane, bounds |-> NoBounds, center |-> NoVec, radius |-> 0,
     origin |-> NoPlanes, normal |-> [p \in 0..2 |-> IF p = 0 THEN Vec3(1, 0, 0) ELSE NoVec],
     wrote |-> {}, stale |-> {}]

LocalsInit ==
    /\ i = 0
    /\ dom = EmptyDataSet
    /\ input = EmptyDataSet
    /\ output = EmptyDataSet
    /\ pass = 0
    /\ npasses = 0
    /\ clip_value = 0
    /\ clipper = NoClipper
    /\ res = << >>
    /\ lastEval = NoEval
    /\ nclips = 0
    /\ resSrc = << >>
    /\ propagated = FALSE
    /\ checkSite = "none"
    /\ error = FALSE

Init ==
    /\ clip_mode = 2
    /\ boxbounds = [k \in 0..2 |-> EmptyRange]
    /\ sphere_center = Vec3(0, 0, 0)
    /\ sphere_radius = 1
    /\ plane_origin = [p \in 0..2 |-> Vec3(0, 0, 0)]
    /\ plane_normal = [p \in 0..2 |-> [k \in 0..2 |-> IF k = p THEN 1 ELSE 0]]
    /\ m_invert = FALSE
    /\ m_do_multi_plane = FALSE
    /\ collection \in Collections
    /\ keepEqual \in BOOLEAN
    /\ pc = "idle"
    /\ nset = 0
    /\ setLimit = MaxSetCalls
    /\ cfgLog = NoCall
    /\ evalRun = NoEvalRun
    /\ LocalsInit

----------------------------------------------------------------------------
(* Configuration calls; none of them validates anything *)

CanSet == pc = "idle" /\ nset < setLimit

Planes(v1, v2, v3) == [p \in 0..2 |-> IF p = 0 THEN v1 ELSE IF p = 1 THEN v2 ELSE v3]

\* the record of a Set*Clip call: the arguments it was given (placeholders
\* for the kinds of argument it does not take), the members it assigned, and
\* the members assigned by earlier calls only
LogCall(mode, bounds, center, radius, origin, normal) ==
    [mode |-> mode, bounds |-> bounds, center |-> center, radius |-> radius,
     origin |-> origin, normal |-> normal, wrote |-> MembersOf(mode),
     stale |-> (cfgLog.stale \cup cfgLog.wrote) \ MembersOf(mode)]

SetBoxClip(bounds) ==
    /\ CanSet
    /\ clip_mode' = ModeBox
    /\ boxbounds' = bounds
    /\ nset' = nset + 1
    /\ cfgLog' = LogCall(ModeBox, bounds, NoVec, 0, NoPlanes, NoPlanes)
    /\ UNCHANGED << sphere_center, sphere_radius, plane_origin, plane_normal,
                    m_invert, m_do_multi_plane, collection, keepEqual, pc, setLimit,
                    evalRun, locals >>

SetSphereClip(center, radius) ==
    /\ CanSet
    /\ clip_mode' = ModeSphere
    /\ sphere_center' = center
    /\ sphere_radius' = radius
    /\ nset' = nset + 1
    /\ cfgLog' = LogCall(ModeSphere, NoBounds, center, radius, NoPlanes, NoPlanes)
    /\ UNCHANGED << boxbounds, plane_origin, plane_normal,
                    m_invert, m_do_multi_plane, collection, keepEqual, pc, setLimit,
                    evalRun, locals >>

SetPlaneClip(origin, normal) ==
    /\ CanSet
    /\ clip_mode' = ModePlane
    /\ plane_origin' = [plane_origin EXCEPT ![0] = origin]
    /\ plane_normal' = [plane_normal EXCEPT ![0] = normal]
    /\ nset' = nset + 1
    /\ cfgLog' = LogCall(ModePlane, NoBounds, NoVec, 0,
                         Planes(origin, NoVec, NoVec), Planes(normal, NoVec, NoVec))
    /\ UNCHANGED << boxbounds, sphere_center, sphere_radius,
                    m_invert, m_do_multi_plane, collection, keepEqual, pc, setLimit,
                    evalRun, locals >>

\* mutant: the second plane is not stored
Set2PlaneClipFirstOnly(origin1, normal1, origin2, normal2) ==
    /\ CanSet
    /\ clip_mode' = Mode2Plane
    /\ plane_origin' = [plane_origin EXCEPT ![0] = origin1]
    /\ plane_normal' = [plane_normal EXCEPT ![0] = normal1]
    /\ nset' = nset + 1
    /\ cfgLog' = LogCall(Mode2Plane, NoBounds, NoVec, 0,
                         Planes(origin1, origin2, NoVec), Planes(normal1, normal2, NoVec))
    /\ UNCHANGED << boxbounds, sphere_center, sphere_radius,
                    m_invert, m_do_multi_plane, collection, keepEqual, pc, setLimit,
                    evalRun, locals >>

Set2PlaneClip(origin1, normal1, origin2, normal2) ==
    /\ CanSet
    /\ clip_mode' = Mode2Plane
    /\ plane_origin' = [plane_origin EXCEPT ![0] = origin1, ![1] = origin2]
    /\ plane_normal' = [plane_normal EXCEPT ![0] = normal1, ![1] = normal2]
    /\ nset' = nset + 1
    /\ cfgLog' = LogCall(Mode2Plane, NoBounds, NoVec, 0,
                         Planes(origin1, origin2, NoVec), Planes(normal1, normal2, NoVec))
    /\ UNCHANGED << boxbounds, sphere_center, sphere_radius,
                    m_invert, m_do_multi_plane, collection, keepEqual, pc, setLimit,
                    evalRun, locals >>

Set3PlaneClip(origin1, normal1, origin2, normal2, origin3, normal3) ==
    /\ CanSet
    /\ clip_mode' = Mode3Plane
    /\ plane_origin' = Planes(origin1, origin2, origin3)
    /\ plane_normal' = Planes(normal1, normal2, normal3)
    /\ nset' = nset + 1
    /\ cfgLog' = LogCall(Mode3Plane, NoBounds, NoVec, 0,
                         Planes(origin1, origin2, origin3),
                         Planes(normal1, normal2, normal3))
    /\ UNCHANGED << boxbounds, sphere_center, sphere_radius,
                    m_invert, m_do_multi_plane, collection, keepEqual, pc, setLimit,
                    evalRun, locals >>

SetInvertClip(invert) ==
    /\ pc = "idle"
    /\ m_invert' = invert
    /\ UNCHANGED << internals, m_do_multi_plane, collection, keepEqual, pc, nset,
                    setLimit, cfgLog, evalRun, locals >>

SetMultiPlane(value) ==
    /\ pc = "idle"
    /\ m_do_multi_plane' = value
    /\ UNCHANGED << internals, m_invert, collection, keepEqual, pc, nset,
                    setLimit, cfgLog, evalRun, locals >>

----------------------------------------------------------------------------
(* Clip::execute, step by step *)

config == << internals, m_invert, m_do_multi_plane, keepEqual, nset, setLimit, cfgLog,
            evalRun >>

\* Collection res; i = 0
ExecuteBegin ==
    /\ pc = "idle"
    /\ pc' = "loop"
    /\ UNCHANGED << config, collection, locals >>

\* loop head on a domain with a mesh: set up the passes
FetchDomain ==
    /\ pc = "loop"
    /\ i < local_size(collection)
    /\ HasMesh(LocalDom(collection, i))
    /\ dom' = LocalDom(collection, i)
    /\ input' = LocalInput(collection, i)
    /\ output' = EmptyDataSet
    /\ npasses' = num_passes(m_do_multi_plane)
    /\ pass' = 0
    /\ nclips' = 0
    /\ pc' = IF 0 < npasses' THEN "attach" ELSE "add"
    /\ UNCHANGED << config, collection, i, clip_value, clipper, res, lastEval,
                    resSrc, propagated, checkSite, error >>

\* loop head on a domain without a mesh: nothing is added for it
SkipDomain ==
    /\ pc = "loop"
    /\ i < local_size(collection)
    /\ ~HasMesh(LocalDom(collection, i))
    /\ dom' = LocalDom(collection, i)
    /\ i' = i + 1
    /\ UNCHANGED << config, collection, pc, input, output, pass, npasses, clip_value,
                    clipper, res, lastEval, nclips, resSrc, propagated, checkSite, error >>

\* make_distances, then input.add_field(f); a raised error leaves execute
AttachField ==
    /\ pc = "attach"
    /\ LET d == make_distances(DistanceSource, m_do_multi_plane, pass)
       IN  /\ lastEval' = [evaluator |-> d.evaluator, plane_index |-> d.plane_index,
                           nplanes |-> d.nplanes, source |-> DistanceSource.mesh,
                           values |-> d.values, reads |-> d.reads]
           /\ checkSite' = IF d.checked THEN "execute" ELSE checkSite
           /\ error' = d.error
           /\ IF d.error
              THEN /\ pc' = "error"
                   /\ UNCHANGED << input, clip_value, collection >>
              ELSE /\ pc' = "clip"
                   /\ clip_value' = d.clip_value
                   /\ input' = add_field(input, field_name, d.values)
                   /\ collection' = WriteThrough(collection, input')
    /\ UNCHANGED << config, i, dom, output, pass, npasses, clipper, res, nclips, resSrc,
                    propagated >>

\* configure and run the clipper, strip the field from input and output,
\* input = output
ClipPass ==
    /\ pc = "clip"
    /\ \E propagate \in BOOLEAN :
         LET c == [clip_value |-> clip_value, field |-> field_name,
                   exclude |-> TRUE, invert |-> ClipperInvert]
             out == StripField(ClipFieldExecute(c, input, keepEqual, propagate))
         IN  /\ clipper' = c
             /\ output' = out
             /\ input' = DataSetAssign(input, out)
             /\ collection' = WriteThrough(collection, input')
             /\ propagated' = (propagated \/ propagate)
    /\ nclips' = nclips + 1
    /\ pass' = pass + 1
    /\ pc' = IF pass' < npasses THEN "attach" ELSE "add"
    /\ UNCHANGED << config, i, dom, npasses, clip_value, res, lastEval, resSrc,
                    checkSite, error >>

\* res.add_domain(output); ++i
AddDomain ==
    /\ pc = "add"
    /\ res' = Append(res, output)
    /\ resSrc' = Append(resSrc, i)
    /\ propagated' = FALSE
    /\ i' = i + 1
    /\ pc' = "loop"
    /\ UNCHANGED << config, collection, dom, input, output, pass, npasses, clip_value,
                    clipper, lastEval, nclips, checkSite, error >>

\* the loop is over: return res
ExecuteReturn ==
    /\ pc = "loop"
    /\ i >= local_size(collection)
    /\ pc' = "done"
    /\ UNCHANGED << config, collection, locals >>

\* the caller takes the result; execute's locals are gone
Finish ==
    /\ pc = "done"
    /\ pc' = "idle"
    /\ i' = 0
    /\ dom' = EmptyDataSet
    /\ input' = EmptyDataSet
    /\ output' = EmptyDataSet
    /\ pass' = 0
    /\ npasses' = 0
    /\ clip_value' = 0
    /\ clipper' = NoClipper
    /\ res' = << >>
    /\ lastEval' = NoEval
    /\ nclips' = 0
    /\ resSrc' = << >>
    /\ propagated' = FALSE
    /\ checkSite' = "none"
    /\ error' = FALSE
    /\ UNCHANGED << config, collection >>

Next ==
    \/ \E b \in BoxChoices : SetBoxClip(b)
    \/ \E s \in SphereChoices : SetSphereClip(s.center, s.radius)
    \/ \E p \in PlaneChoices : SetPlaneClip(p.origin, p.normal)
    \/ \E p1, p2 \in PlaneChoices :
         Set2PlaneClip(p1.origin, p1.normal, p2.origin, p2.normal)
    \/ \E p1, p2, p3 \in PlaneChoices :
         Set3PlaneClip(p1.origin, p1.normal, p2.origin, p2.normal, p3.origin, p3.normal)
    \/ \E b \in BOOLEAN : SetInvertClip(b)
    \/ \E b \in BOOLEAN : SetMultiPlane(b)
    \/ ExecuteBegin
    \/ FetchDomain
    \/ SkipDomain
    \/ AttachField
    \/ ClipPass
    \/ AddDomain
    \/ ExecuteReturn
    \/ Finish

Spec == Init /\ [][Next]_vars

----------------------------------------------------------------------------
(* The configuration examined: a caller that makes up to MaxCfgCalls       *)
(* Set*Clip calls in a row before executing on one collection, a domain    *)
(* with a mesh followed by one without.                                    *)

CfgCollection ==
    << [owner |-> 1, has_mesh |-> TRUE, mesh |-> <<pA, pB>>,
        fields |-> CallerFields(<<pA, pB>>)],
       [owner |-> 2, has_mesh |-> FALSE, mesh |-> << >>, fields |-> << >>] >>

InitCfg ==
    /\ clip_mode = 2
    /\ boxbounds = [k \in 0..2 |-> EmptyRange]
    /\ sphere_center = Vec3(0, 0, 0)
    /\ sphere_radius = 1
    /\ plane_origin = [p \in 0..2 |-> Vec3(0, 0, 0)]
    /\ plane_normal = [p \in 0..2 |-> [k \in 0..2 |-> IF k = p THEN 1 ELSE 0]]
    /\ m_invert = FALSE
    /\ m_do_multi_plane = FALSE
    /\ collection = CfgCollection
    /\ keepEqual \in BOOLEAN
    /\ pc = "idle"
    /\ nset = 0
    /\ setLimit = MaxCfgCalls
    /\ cfgLog = NoCall
    /\ evalRun = NoEvalRun
    /\ LocalsInit

SpecCfg == InitCfg /\ [][Next]_vars

----------------------------------------------------------------------------
(* The evaluators on their own: one is constructed from arguments drawn    *)
(* from the sets below and applied once to a two-point mesh.               *)

EvalCoords == (0 - 1)..(MaxExtent + 1)

EvalPoints == { Vec3(x, y, z) : x \in EvalCoords, y \in EvalCoords, z \in EvalCoords }

EvalMesh(p) == << p, Vec3(0 - p[0], 0 - p[1], 0 - p[2]) >>

EvalPlanes == { [origin |-> Vec3(0, 0, 0), normal |-> Vec3(1, 0, 0)],
                [origin |-> Vec3(1, 2, 0), normal |-> Vec3(0, -1, 0)],
                [origin |-> Vec3(1, 0, 0), normal |-> Vec3(0, 1, 0)],
                [origin |-> Vec3(0, 0, 1), normal |-> Vec3(0, 0, 2)] }

EvalRanges == { [min |-> a, max |-> b] : a \in 0..MaxExtent, b \in 0..MaxExtent }

\* the boxes with min <= max on every axis
EvalBoxes == [0..2 -> { r \in EvalRanges : r.min <= r.max }]

MultiPlaneInput(a, b, c, n, p) ==
    [kind |-> "MultiPlane", origin |-> Planes(a.origin, b.origin, c.origin),
     normal |-> Planes(a.normal, b.normal, c.normal), nplanes |-> n,
     bounds |-> NoBounds, mesh |-> EvalMesh(p), done |-> FALSE, out |-> << >>]

BoxInput(b, p) ==
    [kind |-> "Box", origin |-> NoPlanes, normal |-> NoPlanes, nplanes |-> 0,
     bounds |-> b, mesh |-> EvalMesh(p), done |-> FALSE, out |-> << >>]

InitEval ==
    /\ clip_mode = 2
    /\ boxbounds = [k \in 0..2 |-> EmptyRange]
    /\ sphere_center = Vec3(0, 0, 0)
    /\ sphere_radius = 1
    /\ plane_origin = [p \in 0..2 |-> Vec3(0, 0, 0)]
    /\ plane_normal = [p \in 0..2 |-> [k \in 0..2 |-> IF k = p THEN 1 ELSE 0]]
    /\ m_invert = FALSE
    /\ m_do_multi_plane = FALSE
    /\ collection = << >>
    /\ keepEqual = TRUE
    /\ pc = "idle"
    /\ nset = 0
    /\ setLimit = 0
    /\ cfgLog = NoCall
    /\ \/ \E a \in EvalPlanes, b \in EvalPlanes, c \in EvalPlanes, n \in 1..3,
               p \in EvalPoints : evalRun = MultiPlaneInput(a, b, c, n, p)
       \/ \E b \in EvalBoxes, p \in EvalPoints : evalRun = BoxInput(b, p)
    /\ LocalsInit

clipvars == << internals, m_invert, m_do_multi_plane, collection, keepEqual, pc, nset,
               setLimit, cfgLog, locals >>

\* MultiPlaneDistance(origin, normal, nplanes) applied to the mesh
ApplyMultiPlane ==
    /\ evalRun.kind = "MultiPlane"
    /\ ~evalRun.done
    /\ ~MultiPlaneRangeError(evalRun.nplanes)
    /\ evalRun' = [evalRun EXCEPT !.done = TRUE,
                     !.out = MultiPlaneDistance(evalRun.origin, evalRun.normal,
                                                evalRun.nplanes, evalRun.mesh)]
    /\ UNCHANGED clipvars

\* BoxDistance(bounds) applied to the mesh
ApplyBox ==
    /\ evalRun.kind = "Box"
    /\ ~evalRun.done
    /\ evalRun' = [evalRun EXCEPT !.done = TRUE,
                     !.out = BoxDistance(evalRun.bounds, evalRun.mesh)]
    /\ UNCHANGED clipvars

NextEval ==
    \/ ApplyMultiPlane
    \/ ApplyBox

SpecEval == InitEval /\ [][NextEval]_vars

----------------------------------------------------------------------------
(* Properties *)

Points(mesh) == { mesh[k] : k \in 1..Len(mesh) }

\* the caller's domain that res[j] was produced from
SourceOf(j) == domain(collection, resSrc[j])

Dist2(p, c) ==
    (p[0]-c[0])*(p[0]-c[0]) + (p[1]-c[1])*(p[1]-c[1]) + (p[2]-c[2])*(p[2]-c[2])

\* C1: in every pass, the distance field attached to the pass's input is the
\* one computed from that input's own mesh (the original domain in pass 0,
\* the previous pass's output afterwards).
C1_FieldFromCurrentInput ==
    pc = "clip" =>
        input.fields[field_name] = make_distances(input, m_do_multi_plane, pass).values

\* C2: no domain handed to the output collection, and no domain in it, has
\* the scratch field, whether or not the collaborator handed the field on.
C2_NoScratchInResult ==
    /\ \A j \in 1..Len(res) : ~has_field(res[j], field_name)
    /\ pc = "add" => ~has_field(output, field_name)

C2_Witness ==
    /\ pc = "add"
    /\ propagated
    /\ npasses = 3
    /\ Len(res) = 1

\* C3 as claimed: with a sphere and invert = false, every retained point is
\* within the radius and every point farther than the radius is removed.
C3_SphereKeepsInside ==
    (pc = "done" /\ clip_mode = 1 /\ ~m_invert) =>
        \A j \in 1..Len(res) :
            /\ \A p \in Points(res[j].mesh) :
                   Dist2(p, sphere_center) <= sphere_radius * sphere_radius
            /\ \A p \in Points(SourceOf(j).mesh) :
                   Dist2(p, sphere_center) > sphere_radius * sphere_radius
                       => p \notin Points(res[j].mesh)

\* C3 amended: with a sphere and invert = false, every retained point is at
\* distance at least the radius from the center, and every point nearer than
\* the radius is removed.
C3_SphereKeepsOutside ==
    (pc = "done" /\ clip_mode = 1 /\ ~m_invert) =>
        \A j \in 1..Len(res) :
            /\ \A p \in Points(res[j].mesh) :
                   Dist2(p, sphere_center) >= sphere_radius * sphere_radius
            /\ \A p \in Points(SourceOf(j).mesh) :
                   Dist2(p, sphere_center) < sphere_radius * sphere_radius
                       => p \notin Points(res[j].mesh)

C3_Witness ==
    /\ pc = "done" /\ clip_mode = 1 /\ ~m_invert
    /\ \E j \in 1..Len(res) :
         /\ \E p \in Points(SourceOf(j).mesh) :
                /\ Dist2(p, sphere_center) < sphere_radius * sphere_radius
                /\ p \notin Points(res[j].mesh)
         /\ \E p \in Points(res[j].mesh) :
                Dist2(p, sphere_center) > sphere_radius * sphere_radius

\* C4: the invert flag the clipper was run with is the negation of the
\* configured invert for the sphere, and the configured invert for the box
\* and the one-, two- and three-plane shapes.
C4_InvertFlag ==
    nclips > 0 =>
        /\ clip_mode = 1 => clipper.invert = ~m_invert
        /\ clip_mode \in {0, 2, 3, 4} => clipper.invert = m_invert

C4_Witness ==
    /\ nclips > 0
    /\ clip_mode = 1
    /\ ~m_invert
    /\ clipper.invert

PassTable(mode, multipass) ==
    IF mode = 3 /\ multipass THEN 2 ELSE IF mode = 4 /\ multipass THEN 3 ELSE 1

\* C5: num_passes is 1 for box, sphere and single plane, 2 (3) for the two-
\* (three-) plane shape under multiPass and 1 otherwise, and the clipper has
\* run exactly that many times when a domain's output is added.
C5_PassCount ==
    /\ \A mp \in BOOLEAN : num_passes(mp) = PassTable(clip_mode, mp)
    /\ pc = "add" => nclips = PassTable(clip_mode, m_do_multi_plane)

C5_Witness ==
    /\ pc = "add"
    /\ clip_mode = 4
    /\ m_do_multi_plane
    /\ nclips = 3

\* C6: the evaluator, the plane and the values that make_distances produced
\* for the current pass follow the (shape kind, multiPass) table.
C6_EvaluatorTable ==
    pc = "clip" =>
        LET src == lastEval.source
            f == input.fields[field_name]
        IN  /\ clip_mode = 0 =>
                /\ lastEval.evaluator = "Box"
                /\ f = BoxDistance(boxbounds, src)
            /\ clip_mode = 1 =>
                /\ lastEval.evaluator = "Sphere"
                /\ f = SphereDistance(sphere_center, src)
            /\ clip_mode = 2 =>
                /\ lastEval.evaluator = "SinglePlane"
                /\ lastEval.plane_index = 0
                /\ f = SinglePlaneDistance(plane_origin[0], plane_normal[0], src)
            /\ (clip_mode \in {3, 4} /\ m_do_multi_plane) =>
                /\ lastEval.evaluator = "SinglePlane"
                /\ lastEval.plane_index = pass
                /\ f = SinglePlaneDistance(plane_origin[pass], plane_normal[pass], src)
            /\ (clip_mode \in {3, 4} /\ ~m_do_multi_plane) =>
                /\ lastEval.evaluator = "MultiPlane"
                /\ lastEval.nplanes = clip_mode - 1
                /\ f = MultiPlaneDistance(plane_origin, plane_normal, clip_mode - 1, src)

C6_Witness ==
    /\ pc = "clip"
    /\ clip_mode = 4
    /\ m_do_multi_plane
    /\ pass = 2
    /\ lastEval.plane_index = 2
    /\ plane_origin[2] # plane_origin[0]

MeshIndices ==
    SelectSeq([k \in 1..Len(collection) |-> k - 1],
              LAMBDA idx : collection[idx + 1].has_mesh)

\* C7: the returned collection has one domain per input domain with a mesh,
\* in input order, each a clipped version of that domain; a domain without a
\* mesh contributes nothing.
C7_OneOutputPerMesh ==
    pc = "done" =>
        /\ resSrc = MeshIndices
        /\ Len(res) = Len(resSrc)
        /\ \A j \in 1..Len(res) :
               /\ res[j].has_mesh
               /\ Points(res[j].mesh) \subseteq Points(SourceOf(j).mesh)

C7_Witness ==
    /\ pc = "done"
    /\ Len(collection) = 2
    /\ ~collection[1].has_mesh
    /\ collection[2].has_mesh
    /\ resSrc = << 1 >>
    /\ Len(res) = 1

\* C8: no step of execute changes the caller's collection, and the scratch
\* field is never on a caller's domain.
C8_InputUntouched ==
    /\ [][collection' = collection]_vars
    /\ [](\A k \in 1..Len(collection) : ~has_field(collection[k], field_name))

C8_Witness ==
    /\ pc = "clip"
    /\ has_field(input, field_name)
    /\ ~has_field(domain(collection, i), field_name)
    /\ input.mesh = domain(collection, i).mesh

\* C9 as claimed: the plane-count range check is made when the shape is
\* configured and is not deferred to execute.
C9_CheckedAtSetClip == checkSite # "execute"

\* C9 amended: the Set*Clip calls check nothing and cannot fail; the range
\* check runs only inside execute, when the MultiPlane evaluator is built
\* for a two- or three-plane shape without multiPass; the count it sees is
\* the mode minus one, 2 or 3, so it never raises.
C9_CheckedInExecute ==
    /\ pc = "idle" => checkSite = "none"
    /\ checkSite = "execute" =>
           /\ clip_mode \in {3, 4}
           /\ ~m_do_multi_plane
           /\ lastEval.evaluator = "MultiPlane"
           /\ lastEval.nplanes = clip_mode - 1
           /\ lastEval.nplanes \in 1..3
    /\ ~error
    /\ pc # "error"

C9_Witness ==
    /\ pc = "clip"
    /\ checkSite = "execute"
    /\ clip_mode = 4
    /\ lastEval.nplanes = 3

\* what one fused pass over the planes keeps of a caller's domain
FusedOutput(d) ==
    LET m == make_multi_plane_distances(d)
        c == [clip_value |-> m.clip_value, field |-> field_name, exclude |-> TRUE,
              invert |-> ClipperInvert]
    IN  ClipFieldExecute(c, add_field(d, field_name, m.values), keepEqual, FALSE)

\* C10: for a two- or three-plane shape, the points kept by the multi-pass
\* clip are among the points kept by the fused single-pass clip.
C10_MultiPassWithinFused ==
    (pc = "done" /\ clip_mode \in {3, 4} /\ m_do_multi_plane) =>
        \A j \in 1..Len(res) :
            Points(res[j].mesh) \subseteq Points(FusedOutput(SourceOf(j)).mesh)

----------------------------------------------------------------------------
\* the distance field the arguments of the logged call alone determine for
\* pass p over a mesh
FieldOfCall(log, multipass, p, mesh) ==
    IF log.mode = ModeBox THEN BoxDistance(log.bounds, mesh)
    ELSE IF log.mode = ModeSphere THEN SphereDistance(log.center, mesh)
    ELSE IF log.mode = ModePlane
         THEN SinglePlaneDistance(log.origin[0], log.normal[0], mesh)
    ELSE IF multipass THEN SinglePlaneDistance(log.origin[p], log.normal[p], mesh)
    ELSE MultiPlaneDistance(log.origin, log.normal, log.mode - 1, mesh)

\* C11 as stated: no member that only an earlier Set*Clip call assigned is
\* read when the distance field of a pass is made.
C11_NoStaleRead ==
    pc = "clip" => lastEval.reads \cap cfgLog.stale = {}

\* C11, amended: after any sequence of Set*Clip calls the active mode is the
\* one of the most recent call (single plane if there was none), and the pass
\* count, the clip value and the distance field of every pass are those the
\* arguments of that call alone determine; the only left-over members read
\* are the planes at index >= N which the fused MultiPlane evaluator copies
\* and normalizes without using them.
C11_LatestCallOnly ==
    /\ clip_mode = cfgLog.mode
    /\ pc = "clip" =>
         /\ npasses = PassTable(cfgLog.mode, m_do_multi_plane)
         /\ lastEval.values =
              FieldOfCall(cfgLog, m_do_multi_plane, pass, lastEval.source)
         /\ clip_value = (IF cfgLog.mode = ModeSphere THEN cfgLog.radius ELSE 0)
         /\ lastEval.reads \cap cfgLog.stale # {} => lastEval.evaluator = "MultiPlane"
         /\ lastEval.reads \cap cfgLog.stale
              \subseteq PlaneMembers({ p \in 0..2 : p >= lastEval.nplanes })

\* a fused two-plane clip made after a three-plane call: the third plane is
\* left over, would change the field of pB if it were used, and is read
C11_Witness ==
    /\ pc = "clip"
    /\ nset = 2
    /\ cfgLog.mode = Mode2Plane
    /\ lastEval.evaluator = "MultiPlane"
    /\ <<"plane_origin", 2>> \in lastEval.reads \cap cfgLog.stale
    /\ MultiPlaneDistance(plane_origin, plane_normal, 3, lastEval.source)
         # lastEval.values

----------------------------------------------------------------------------
\* dot(pt - origin, normal), written out
SignedDistance(pt, origin, normal) ==
    LET d == [k \in 0..2 |-> pt[k] - origin[k]]
    IN  d[0] * normal[0] + d[1] * normal[1] + d[2] * normal[2]

IsUnit(n) == n[0] * n[0] + n[1] * n[1] + n[2] * n[2] = 1

IsMinOf(v, S) == v \in S /\ \A d \in S : v <= d

IsMaxOf(v, S) == v \in S /\ \A d \in S : v >= d

\* C12: a MultiPlane evaluator built with N planes (N in 1..3) whose first N
\* normals are unit writes, for every control point, the minimum over planes
\* 0..N-1 of dot(point - origin_p, normal_p); replacing the planes at index
\* >= N by any others leaves the output unchanged.
C12_MultiPlaneIsMin ==
    LET r == evalRun
        N == r.nplanes
    IN  (r.kind = "MultiPlane" /\ r.done /\ \A p \in 0..(N - 1) : IsUnit(r.normal[p])) =>
          /\ Len(r.out) = Len(r.mesh)
          /\ \A id \in 1..Len(r.mesh) :
                IsMinOf(r.out[id], { SignedDistance(r.mesh[id], r.origin[p], r.normal[p]) :
                                     p \in 0..(N - 1) })
          /\ \A a, b \in EvalPlanes :
                LET o == [p \in 0..2 |-> IF p < N THEN r.origin[p]
                                         ELSE IF p = 1 THEN a.origin ELSE b.origin]
                    n == [p \in 0..2 |-> IF p < N THEN r.normal[p]
                                         ELSE IF p = 1 THEN a.normal ELSE b.normal]
                IN  MultiPlaneDistance(o, n, N, r.mesh) = r.out

\* two planes of three in use, the second one the nearer at the first point,
\* the unused third nearer still
C12_Witness ==
    /\ evalRun.kind = "MultiPlane"
    /\ evalRun.done
    /\ evalRun.nplanes = 2
    /\ \A p \in 0..2 : IsUnit(evalRun.normal[p])
    /\ LET d(p) == SignedDistance(evalRun.mesh[1], evalRun.origin[p], evalRun.normal[p])
       IN  d(2) < d(1) /\ d(1) < d(0) /\ evalRun.out[1] = d(1)

----------------------------------------------------------------------------
\* position of coordinate k of point p relative to the box
Outside(p, b, k) == p[k] < b[k].min \/ p[k] > b[k].max
Within(p, b, k) == b[k].min <= p[k] /\ p[k] <= b[k].max
Interior(p, b, k) == b[k].min < p[k] /\ p[k] < b[k].max
OnFace(p, b, k) == p[k] = b[k].min \/ p[k] = b[k].max
FaceDistance(p, b, k) == IF p[k] < b[k].min THEN b[k].min - p[k] ELSE p[k] - b[k].max

\* C13: for a box with min <= max on each axis the Box evaluator's value at
\* a point is the maximum of lo_i - p_i and p_i - hi_i over the three axes;
\* it is negative strictly inside, 0 on one face with the other coordinates
\* interior, and, outside on exactly one axis, positive and equal to the
\* distance to the violated face.
C13_BoxIsMaxOfFaces ==
    LET r == evalRun
        b == r.bounds
    IN  (r.kind = "Box" /\ r.done) =>
          /\ Len(r.out) = Len(r.mesh)
          /\ \A id \in 1..Len(r.mesh) :
                LET p == r.mesh[id]
                    v == r.out[id]
                IN  /\ IsMaxOf(v, { b[k].min - p[k] : k \in 0..2 }
                                      \cup { p[k] - b[k].max : k \in 0..2 })
                    /\ (\A k \in 0..2 : Interior(p, b, k)) => v < 0
                    /\ \A k \in 0..2 :
                          (OnFace(p, b, k) /\ \A j \in 0..2 \ {k} : Interior(p, b, j))
                             => v = 0
                    /\ \A k \in 0..2 :
                          (Outside(p, b, k) /\ \A j \in 0..2 \ {k} : Within(p, b, j))
                             => v > 0 /\ v = FaceDistance(p, b, k)

\* a point beyond the upper z face only, the other two coordinates interior,
\* and its mirror image strictly outside on all axes
C13_Witness ==
    /\ evalRun.kind = "Box"
    /\ evalRun.done
    /\ Outside(evalRun.mesh[1], evalRun.bounds, 2)
    /\ \A j \in 0..1 : Interior(evalRun.mesh[1], evalRun.bounds, j)
    /\ evalRun.out[1] = evalRun.mesh[1][2] - evalRun.bounds[2].max
    /\ evalRun.out[1] > 0
    /\ \A j \in 0..2 : Outside(evalRun.mesh[2], evalRun.bounds, j)

====
